---- MODULE Spec2Model ----
(***************************************************************************)
(* Model of the Assessment Agent backend (src/server.py): the four POST    *)
(* handlers generate_assessment, evaluate_answer, check_plagiarism and     *)
(* recommend_tests, the temporary file of an uploaded syllabus, and the    *)
(* calls to the completion service (model.generate_content).               *)
(*                                                                         *)
(* One request is served at a time; all data is request-local.  A handler  *)
(* is cut into actions only where it waits for a collaborator that may     *)
(* fail: the upload's save, the PDF parse and each completion call.        *)
(*                                                                         *)
(* Text is a sequence of tokens.  A token is one character, or, in a       *)
(* model reply, one of the four literal labels the regular expressions     *)
(* look for.  A fixed message of the program is a one-token sequence.      *)
(* Prompt text is not modelled: difficulty and rubric only reach prompts.  *)
(***************************************************************************)
EXTENDS Integers, Sequences, FiniteSets, TLC

(* ---------------- bounds ---------------- *)
MaxTotal == 12
MaxNegative == 2
MaxAnswerLen == 2
MaxReplyLen == 3

(* ---------------- Python values ---------------- *)
\* Python's None, a value distinct from every string and list.
None == <<"<None>">>

Msg(s) == <<s>>

\* `not x` for x a str, a list or None.
Falsy(x) == x = None \/ x = <<>>

SeqsUpTo(S, n) == UNION {[1..k -> S] : k \in 0..n}

WS == {" ", "\n"}

RECURSIVE LStrip(_)
LStrip(s) == IF s # <<>> /\ Head(s) \in WS THEN LStrip(Tail(s)) ELSE s

RECURSIVE RStrip(_)
RStrip(s) ==
    IF s # <<>> /\ s[Len(s)] \in WS THEN RStrip(SubSeq(s, 1, Len(s) - 1)) ELSE s

\* str.strip()
Strip(s) == RStrip(LStrip(s))

UpperChar(c) ==
    CASE c = "b" -> "B"
      [] c = "c" -> "C"
      [] OTHER -> c

\* str.upper()
Upper(s) == [i \in 1..Len(s) |-> UpperChar(s[i])]

\* round(num / den) for den > 0: Python 3 rounds halves to the even integer.
PyRound(num, den) ==
    LET q == num \div den
        r == num - q * den
    IN  IF 2 * r < den THEN q
        ELSE IF 2 * r > den THEN q + 1
        ELSE IF q % 2 = 0 THEN q ELSE q + 1

(* ---------------- generate_assessment: question counts ---------------- *)
\* BothCounts without the readjustment of lines 103-107.
BothCountsUnadjusted(total_questions) ==
    LET m0 == PyRound(total_questions * 2, 3)
        s0 == total_questions - m0
    IN  IF total_questions > 0
        THEN [mcq |-> IF m0 = 0 THEN 1 ELSE m0,
              subjective |-> IF s0 = 0 THEN 1 ELSE s0]
        ELSE [mcq |-> m0, subjective |-> s0]

\* Lines 97-107: the counts when both "mcq" and "subjective" are selected.
BothCounts(total_questions) ==
    LET m0 == PyRound(total_questions * 2, 3)
        s0 == total_questions - m0
    IN  IF total_questions > 0
        THEN LET m1 == IF m0 = 0 THEN 1 ELSE m0
                 s1 == IF s0 = 0 THEN 1 ELSE s0
             IN  IF m1 + s1 > total_questions
                 THEN IF m1 > s1
                      THEN [mcq |-> total_questions - s1, subjective |-> s1]
                      ELSE [mcq |-> m1, subjective |-> total_questions - m1]
                 ELSE [mcq |-> m1, subjective |-> s1]
        ELSE [mcq |-> m0, subjective |-> s0]

\* Lines 95-118: the counts for a parsed question_types list; valid is FALSE
\* on the "No valid question type selected." branch.
QuestionCounts(question_types, total_questions) ==
    IF "mcq" \in question_types /\ "subjective" \in question_types
    THEN [valid |-> TRUE, mcq |-> BothCounts(total_questions).mcq,
          subjective |-> BothCounts(total_questions).subjective]
    ELSE IF "mcq" \in question_types
    THEN [valid |-> TRUE, mcq |-> total_questions, subjective |-> 0]
    ELSE IF "subjective" \in question_types
    THEN [valid |-> TRUE, mcq |-> 0, subjective |-> total_questions]
    ELSE [valid |-> FALSE, mcq |-> 0, subjective |-> 0]

(* ---------------- evaluate_answer: parsing the model's reply ---------------- *)
ScoreLabel == "Score:"
FeedbackLabel == "Feedback:"
SkillGapLabel == "Skill Gap:"
HighlightsLabel == "Correct Approach/Solution Highlights:"

Labels == {ScoreLabel, FeedbackLabel, SkillGapLabel, HighlightsLabel}

Min(S) == CHOOSE x \in S : \A y \in S : x <= y
Max(S) == CHOOSE x \in S : \A y \in S : x >= y

Occurrences(t, tok) == {i \in 1..Len(t) : t[i] = tok}

\* End of the greedy \s* that starts at index i: the first index at or after
\* i that holds no whitespace (Len(t) + 1 when the text ends first).
WsEnd(t, i) ==
    Min({k \in i..(Len(t) + 1) :
            /\ \A k2 \in i..(k - 1) : t[k2] \in WS
            /\ k = Len(t) + 1 \/ t[k] \notin WS})

NoMatch == [found |-> FALSE, group |-> <<>>]
Match(g) == [found |-> TRUE, group |-> g]

\* Line 274: re.search(r"Score:\s*(.*?)\n", text).  Without DOTALL the dot
\* stops at a newline; \s* is greedy and gives characters back until a
\* newline can follow the group.
ScoreStarts(t, i) ==
    {p \in (i + 1)..WsEnd(t, i + 1) : \E j \in p..Len(t) : t[j] = "\n"}

ScoreSearch(t) ==
    LET hits == {i \in Occurrences(t, ScoreLabel) : ScoreStarts(t, i) # {}}
    IN  IF hits = {} THEN NoMatch
        ELSE LET i == Min(hits)
                 p == Max(ScoreStarts(t, i))
                 j == Min({k \in p..Len(t) : t[k] = "\n"})
             IN  Match(SubSeq(t, p, j - 1))

\* The lookahead (?=\n<next>|$) at index j; $ also matches just before a
\* newline that ends the text.
Lookahead(t, j, next) ==
    \/ j = Len(t) + 1
    \/ j = Len(t) /\ t[j] = "\n"
    \/ j < Len(t) /\ t[j] = "\n" /\ t[j + 1] = next

\* Lines 280 and 286: re.search(label + r"\s*(.*?)(?=\n<next>|$)", text,
\* re.DOTALL): the lazy group ends at the first index where the lookahead
\* holds.
BlockSearch(t, label, next) ==
    IF Occurrences(t, label) = {} THEN NoMatch
    ELSE LET i == Min(Occurrences(t, label))
             m == WsEnd(t, i + 1)
             j == Min({k \in m..(Len(t) + 1) : Lookahead(t, k, next)})
         IN  Match(SubSeq(t, m, j - 1))

FeedbackSearch(t) == BlockSearch(t, FeedbackLabel, SkillGapLabel)

SkillGapSearch(t) == BlockSearch(t, SkillGapLabel, HighlightsLabel)

\* Line 292: re.search(r"Correct Approach/Solution Highlights:\s*(.*)", text,
\* re.DOTALL): the group runs to the end of the text.
HighlightsSearch(t) ==
    IF Occurrences(t, HighlightsLabel) = {} THEN NoMatch
    ELSE LET i == Min(Occurrences(t, HighlightsLabel))
         IN  Match(SubSeq(t, WsEnd(t, i + 1), Len(t)))

NA == Msg("N/A")
FeedbackFallback == Msg("Could not parse detailed feedback from AI.")
SkillGapFallback == Msg("Could not parse skill gap analysis from AI.")
HighlightsFallback == Msg("Could not parse solution highlights from AI.")

\* Lines 274-296: the four fields parsed from raw_eval_text.
ParsedScore(t) ==
    IF ScoreSearch(t).found THEN Strip(ScoreSearch(t).group) ELSE NA

ParsedFeedback(t) ==
    IF FeedbackSearch(t).found THEN Strip(FeedbackSearch(t).group)
    ELSE FeedbackFallback

\* ParsedSkillGap without its own fallback.
ParsedSkillGapNoFallback(t) ==
    IF SkillGapSearch(t).found THEN Strip(SkillGapSearch(t).group) ELSE NA

ParsedSkillGap(t) ==
    IF SkillGapSearch(t).found THEN Strip(SkillGapSearch(t).group)
    ELSE SkillGapFallback

ParsedHighlights(t) ==
    IF HighlightsSearch(t).found THEN Strip(HighlightsSearch(t).group)
    ELSE HighlightsFallback

(* ---------------- requests ---------------- *)
\* A JSON key that the body does not carry (dict.get then uses its default).
Absent == <<"<absent>">>

Get(v, default) == IF v = Absent THEN default ELSE v

AnswerChars == {" ", "c", "C"}

UserAnswers == {None} \cup SeqsUpTo(AnswerChars, MaxAnswerLen)

CorrectAnswers == {None, <<"C">>, <<" ", "c">>, <<"b">>}

QuestionTypes ==
    {None, Msg("mcq"), Msg("subjective"), Msg("coding"), Msg("essay")}

\* The form field total_questions: absent, the numeral of n, or other text.
TotalFields ==
    {[kind |-> "absent", n |-> 0], [kind |-> "text", n |-> 0]}
        \cup {[kind |-> "int", n |-> n] : n \in (-MaxNegative)..MaxTotal}

\* The form field question_types: absent, text that is not JSON, a JSON
\* scalar (number, true, null), or a JSON array of strings.
QuestionTypesFields ==
    {[kind |-> k, items |-> {}] : k \in {"absent", "unparsable", "scalar"}}
        \cup {[kind |-> "list", items |-> S] :
                S \in SUBSET {"mcq", "subjective", "both"}}

Forms ==
    [endpoint : {"generate_assessment"},
     topic : {None, <<>>, <<"t">>},
     total_questions : TotalFields,
     question_types : QuestionTypesFields,
     syllabus_pdf : BOOLEAN]

\* object is FALSE for a JSON body that is not an object (array, null, ...).
EvaluateBodies ==
    [endpoint : {"evaluate_answer"},
     object : {TRUE},
     question_text : {None, <<"q">>},
     user_answer : UserAnswers,
     question_type : QuestionTypes,
     correct_answer : CorrectAnswers]
        \cup [endpoint : {"evaluate_answer"}, object : {FALSE},
              question_text : {None}, user_answer : {None},
              question_type : {None}, correct_answer : {None}]

PlagiarismBodies ==
    [endpoint : {"check_plagiarism"},
     object : {TRUE},
     user_answer : {None, <<>>, <<"c">>},
     known_corpus : {Absent, None, <<>>, <<"k">>, <<"k", "k">>}]
        \cup [endpoint : {"check_plagiarism"}, object : {FALSE},
              user_answer : {None}, known_corpus : {Absent}]

RecommendBodies ==
    [endpoint : {"recommend_tests"},
     object : {TRUE},
     skill_gaps : {Absent, None, <<>>, <<"g">>, <<"g", "g">>}]
        \cup [endpoint : {"recommend_tests"}, object : {FALSE},
              skill_gaps : {Absent}]

NoRequest == [endpoint |-> "none"]

\* Line 57: int(request.form.get('total_questions', 10)).
IntParses(field) == field.kind # "text"
IntOf(field) == IF field.kind = "absent" THEN 10 ELSE field.n

\* Lines 59-64: json.loads(request.form.get('question_types', '["both"]')).
JsonLoads(field) ==
    CASE field.kind = "absent" -> [ok |-> TRUE, list |-> TRUE, items |-> {"both"}]
      [] field.kind = "unparsable" -> [ok |-> FALSE, list |-> FALSE, items |-> {}]
      [] field.kind = "scalar" -> [ok |-> TRUE, list |-> FALSE, items |-> {}]
      [] field.kind = "list" -> [ok |-> TRUE, list |-> TRUE, items |-> field.items]

(* ---------------- responses ---------------- *)
NoResponse == [status |-> 0, exception |-> "none", body |-> <<>>]

\* jsonify(body), status
Json(status, body) == [status |-> status, exception |-> "none", body |-> body]

ErrorJson(status, message) == Json(status, [error |-> Msg(message)])

\* An exception that leaves the handler: the framework answers 500 without a
\* JSON body.
Unhandled(exc) == [status |-> 500, exception |-> exc, body |-> <<>>]

(* ---------------- the completion service ---------------- *)
Ok(text) == [ok |-> TRUE, text |-> text]
Failure == [ok |-> FALSE, text |-> <<>>]

ErrorDetail == Msg("<str(e)>")

PlainTexts == {<<"t">>, <<" ", "t", "\n">>}

ReplyTokens == Labels \cup {"\n", " ", "x"}

WellFormedReply ==
    <<ScoreLabel, " ", "x", "\n", FeedbackLabel, " ", "x", "\n",
      SkillGapLabel, " ", "x", "\n", HighlightsLabel, " ", "x">>

NoSkillGapReply ==
    <<ScoreLabel, " ", "x", "\n", FeedbackLabel, " ", "x", "\n",
      HighlightsLabel, " ", "x">>

EvalReplies ==
    SeqsUpTo(ReplyTokens, MaxReplyLen) \cup {WellFormedReply, NoSkillGapReply}

\* What model.generate_content(...).text can do for a call of the given role.
Outcomes(role) ==
    {Failure} \cup
        {Ok(t) : t \in IF role = "subjective_evaluation"
                       THEN EvalReplies ELSE PlainTexts}

\* A new call to model.generate_content.
Issue(cs, role) == Append(cs, [role |-> role, outcome |-> "pending"])

\* The pending call returns or raises.
Settle(cs, o) ==
    [cs EXCEPT ![Len(cs)].outcome = IF o.ok THEN "ok" ELSE "failed"]

(* ---------------- evaluate_answer: the branches ---------------- *)
\* Line 203.
DefaultResult ==
    [score |-> NA, feedback |-> Msg("No evaluation performed."),
     skill_gap |-> NA, solution_highlights |-> NA]

\* AnswersMatch without .upper().
AnswersMatchCaseSensitive(user_answer, correct_answer) ==
    Strip(user_answer) = Strip(correct_answer)

\* user_answer.strip().upper() == correct_answer.strip().upper()
AnswersMatch(user_answer, correct_answer) ==
    Upper(Strip(user_answer)) = Upper(Strip(correct_answer))

\* Line 207 raises AttributeError when it reaches correct_answer.strip() on
\* None: `not user_answer` is evaluated first and short-circuits the `or`.
McqRaises(user_answer, correct_answer) ==
    ~Falsy(user_answer) /\ correct_answer = None

\* NeedsExplanation asked for every MCQ.
NeedsExplanationAlways(user_answer, correct_answer) == TRUE

\* Line 207: is an explanation of the correct answer requested?
NeedsExplanation(user_answer, correct_answer) ==
    Falsy(user_answer) \/ ~AnswersMatch(user_answer, correct_answer)

ExplanationFailed ==
    Msg("Could not generate solution explanation due to an AI error.")

\* Lines 213-218.
WithExplanation(er, o) ==
    [er EXCEPT !.solution_highlights =
        IF o.ok THEN Strip(o.text) ELSE ExplanationFailed]

\* Lines 220-232.
McqGrade(er, user_answer, correct_answer) ==
    IF Falsy(user_answer)
    THEN [er EXCEPT !.score = Msg("Incorrect"),
                    !.feedback = Msg("No answer provided."),
                    !.skill_gap = Msg("Incomplete Answer")]
    ELSE IF AnswersMatch(user_answer, correct_answer)
    THEN [er EXCEPT !.score = Msg("Correct"),
                    !.feedback = Msg("Your answer is correct!"),
                    !.skill_gap = NA,
                    !.solution_highlights = NA]
    ELSE [er EXCEPT !.score = Msg("Incorrect"),
                    !.feedback = Msg("Your answer is incorrect."),
                    !.skill_gap = Msg("Conceptual Understanding")]

\* Line 236: not user_answer or user_answer.strip() == ""
SubjectiveBlank(user_answer) ==
    Falsy(user_answer) \/ Strip(user_answer) = <<>>

\* Lines 237-239.
UnansweredSubjective(er) ==
    [er EXCEPT !.score = Msg("0/10"),
               !.feedback =
                   Msg("No answer provided for this subjective question."),
               !.skill_gap = Msg("No Answer Provided")]

SolutionFailed ==
    Msg("Could not generate solution highlights due to an AI error.")

\* WithSolution that lets the failure pass without writing the field.
WithSolutionUnrecovered(er, o) ==
    IF o.ok THEN [er EXCEPT !.solution_highlights = Strip(o.text)] ELSE er

\* Lines 246-251.
WithSolution(er, o) ==
    [er EXCEPT !.solution_highlights =
        IF o.ok THEN Strip(o.text) ELSE SolutionFailed]

\* Lines 272-296.
WithParsedReply(er, raw_eval_text) ==
    [er EXCEPT !.score = ParsedScore(raw_eval_text),
               !.feedback = ParsedFeedback(raw_eval_text),
               !.skill_gap = ParsedSkillGap(raw_eval_text),
               !.solution_highlights = ParsedHighlights(raw_eval_text)]

EvaluationFailed ==
    Msg("Failed to evaluate subjective answer due to an AI error.")

\* WithEvaluationError that builds a fresh result instead of updating er.
WithEvaluationErrorOnly(er) ==
    [feedback |-> EvaluationFailed, raw_gemini_response |-> ErrorDetail]

\* Lines 298-301.
WithEvaluationError(er) ==
    [er EXCEPT !.feedback = EvaluationFailed]
        @@ ("raw_gemini_response" :> ErrorDetail)

\* Lines 306-309.
CodingPlaceholder(er) ==
    [er EXCEPT !.score = NA,
               !.feedback = Msg("Coding test evaluation is a complex feature that requires a secure execution environment and test cases. This is a placeholder."),
               !.skill_gap =
                   Msg("Not applicable for placeholder coding evaluation."),
               !.solution_highlights = NA]

(* ---------------- state ---------------- *)
VARIABLES
    pc,                        \* where the handler of the current request is
    request,                   \* the request being served
    temp_file,                 \* the upload's temporary file: none, exists, deleted
    context_content,           \* generate_assessment: text of the syllabus
    num_mcqs,                  \* generate_assessment
    num_subjective,            \* generate_assessment
    mcqs_generated_text,       \* generate_assessment
    evaluation_result,         \* evaluate_answer
    raw_eval_text,             \* evaluate_answer: the reply being parsed
    calls,                     \* the request's calls of model.generate_content
    response                   \* what the handler returned

vars ==
    <<pc, request, temp_file, context_content, num_mcqs, num_subjective,
      mcqs_generated_text, evaluation_result, raw_eval_text, calls,
      response>>

Init ==
    /\ pc = "idle"
    /\ request = NoRequest
    /\ temp_file = "none"
    /\ context_content = <<>>
    /\ num_mcqs = 0
    /\ num_subjective = 0
    /\ mcqs_generated_text = <<>>
    /\ evaluation_result = <<>>
    /\ raw_eval_text = <<>>
    /\ calls = <<>>
    /\ response = NoResponse

\* The handler returns resp (or an exception leaves it).
Return(resp) ==
    /\ pc' = "done"
    /\ response' = resp

(* ---------------- generate_assessment ---------------- *)
GenerationFailed == "Failed to generate assessment. Please try again."

\* Lines 89-182 up to the first completion call: the counts, then the MCQ
\* call, else the subjective call, else the empty assessment.
FromCounts(form) ==
    LET loaded == JsonLoads(form.question_types)
        counts == QuestionCounts(loaded.items, IntOf(form.total_questions))
    IN  IF ~loaded.list
        THEN \* `"mcq" in question_types` raises TypeError
             /\ Return(Unhandled("TypeError"))
             /\ UNCHANGED <<num_mcqs, num_subjective, calls>>
        ELSE IF ~counts.valid
        THEN /\ Return(ErrorJson(400, "No valid question type selected."))
             /\ UNCHANGED <<num_mcqs, num_subjective, calls>>
        ELSE /\ num_mcqs' = counts.mcq
             /\ num_subjective' = counts.subjective
             /\ IF counts.mcq > 0
                THEN /\ calls' = Issue(calls, "mcq_generation")
                     /\ pc' = "ga_mcq"
                     /\ UNCHANGED response
                ELSE IF counts.subjective > 0
                THEN /\ calls' = Issue(calls, "subjective_generation")
                     /\ pc' = "ga_subjective"
                     /\ UNCHANGED response
                ELSE /\ Return(Json(200, [mcqs |-> <<>>,
                                          subjective_questions |-> <<>>]))
                     /\ UNCHANGED calls

\* Lines 56-87, then FromCounts when a topic is given.
GenerateAssessment ==
    /\ pc = "idle"
    /\ \E form \in Forms :
        /\ request' = form
        /\ UNCHANGED <<context_content, mcqs_generated_text, evaluation_result,
                       raw_eval_text>>
        /\ IF ~IntParses(form.total_questions)
           THEN /\ Return(Unhandled("ValueError"))
                /\ UNCHANGED <<temp_file, num_mcqs, num_subjective, calls>>
           ELSE IF ~JsonLoads(form.question_types).ok
           THEN /\ Return(ErrorJson(400, "Invalid question_types parameter."))
                /\ UNCHANGED <<temp_file, num_mcqs, num_subjective, calls>>
           ELSE IF form.syllabus_pdf
           THEN \* tempfile.NamedTemporaryFile(delete=False, suffix=".pdf")
                /\ temp_file' = "exists"
                /\ pc' = "ga_save"
                /\ UNCHANGED <<num_mcqs, num_subjective, calls, response>>
           ELSE IF ~Falsy(form.topic)
           THEN /\ FromCounts(form)
                /\ UNCHANGED temp_file
           ELSE /\ Return(ErrorJson(400,
                      "Please provide a topic or upload a syllabus PDF."))
                /\ UNCHANGED <<temp_file, num_mcqs, num_subjective, calls>>

\* Lines 73-75: syllabus_file.save(tmp_file.name) inside the `with` block,
\* which closes the file and, with delete=False, never removes it.
SaveUpload ==
    /\ pc = "ga_save"
    /\ \E saved \in BOOLEAN :
        IF saved
        THEN /\ pc' = "ga_parse"
             /\ UNCHANGED response
        ELSE Return(Unhandled("OSError"))
    /\ UNCHANGED <<request, temp_file, context_content, num_mcqs,
                   num_subjective, mcqs_generated_text, evaluation_result,
                   raw_eval_text, calls>>

\* What parse_pdf (lines 31-45) returns: the text, "" for a PDF without
\* extractable text, None when reading the file raised.
PdfTexts == {None, <<>>, <<"s">>}

\* Lines 77-83, then FromCounts.
ParseSyllabus ==
    /\ pc = "ga_parse"
    /\ \E text \in PdfTexts :
        /\ context_content' = text
        /\ temp_file' = "deleted"      \* os.unlink(temp_file_path)
        /\ IF Falsy(text)
           THEN /\ Return(ErrorJson(500, "Failed to parse PDF syllabus."))
                /\ UNCHANGED <<num_mcqs, num_subjective, calls>>
           ELSE FromCounts(request)
    /\ UNCHANGED <<request, mcqs_generated_text, evaluation_result,
                   raw_eval_text>>

\* Lines 150-153 and 173, or 180-182: the MCQ call is over.
McqGenerated ==
    /\ pc = "ga_mcq"
    /\ \E o \in Outcomes("mcq_generation") :
        IF o.ok
        THEN /\ mcqs_generated_text' = o.text
             /\ IF num_subjective > 0
                THEN /\ calls' = Issue(Settle(calls, o), "subjective_generation")
                     /\ pc' = "ga_subjective"
                     /\ UNCHANGED response
                ELSE /\ calls' = Settle(calls, o)
                     /\ Return(Json(200, [mcqs |-> o.text,
                                          subjective_questions |-> <<>>]))
        ELSE /\ calls' = Settle(calls, o)
             /\ Return(ErrorJson(500, GenerationFailed))
             /\ UNCHANGED mcqs_generated_text
    /\ UNCHANGED <<request, temp_file, context_content, num_mcqs,
                   num_subjective, evaluation_result, raw_eval_text>>

\* Lines 173-179, or 180-182: the subjective call is over.
SubjectiveGenerated ==
    /\ pc = "ga_subjective"
    /\ \E o \in Outcomes("subjective_generation") :
        /\ calls' = Settle(calls, o)
        /\ IF o.ok
           THEN Return(Json(200, [mcqs |-> mcqs_generated_text,
                                  subjective_questions |-> o.text]))
           ELSE Return(ErrorJson(500, GenerationFailed))
    /\ UNCHANGED <<request, temp_file, context_content, num_mcqs,
                   num_subjective, mcqs_generated_text, evaluation_result,
                   raw_eval_text>>

(* ---------------- evaluate_answer ---------------- *)
GaUnchanged ==
    UNCHANGED <<temp_file, context_content, num_mcqs, num_subjective,
                mcqs_generated_text>>

\* Lines 192-314 up to the first completion call.
EvaluateAnswer ==
    /\ pc = "idle"
    /\ GaUnchanged
    /\ UNCHANGED raw_eval_text
    /\ \E data \in EvaluateBodies :
        /\ request' = data
        /\ IF ~data.object
           THEN \* data.get on a list or on None
                /\ Return(Unhandled("AttributeError"))
                /\ UNCHANGED <<evaluation_result, calls>>
           ELSE IF Falsy(data.question_text) \/ Falsy(data.question_type)
           THEN /\ Return(ErrorJson(400,
                      "Missing essential question parameters for evaluation."))
                /\ UNCHANGED <<evaluation_result, calls>>
           ELSE IF data.question_type = Msg("mcq")
           THEN IF McqRaises(data.user_answer, data.correct_answer)
                THEN /\ Return(Unhandled("AttributeError"))
                     /\ evaluation_result' = DefaultResult
                     /\ UNCHANGED calls
                ELSE IF NeedsExplanation(data.user_answer, data.correct_answer)
                THEN /\ evaluation_result' = DefaultResult
                     /\ calls' = Issue(calls, "mcq_explanation")
                     /\ pc' = "ea_explain"
                     /\ UNCHANGED response
                ELSE /\ evaluation_result' =
                          McqGrade(DefaultResult, data.user_answer,
                                   data.correct_answer)
                     /\ Return(Json(200, evaluation_result'))
                     /\ UNCHANGED calls
           ELSE IF data.question_type = Msg("subjective")
           THEN IF SubjectiveBlank(data.user_answer)
                THEN /\ evaluation_result' = UnansweredSubjective(DefaultResult)
                     /\ calls' = Issue(calls, "subjective_solution")
                     /\ pc' = "ea_solution"
                     /\ UNCHANGED response
                ELSE /\ evaluation_result' = DefaultResult
                     /\ calls' = Issue(calls, "subjective_evaluation")
                     /\ pc' = "ea_evaluate"
                     /\ UNCHANGED response
           ELSE IF data.question_type = Msg("coding")
           THEN /\ evaluation_result' = CodingPlaceholder(DefaultResult)
                /\ Return(Json(200, evaluation_result'))
                /\ UNCHANGED calls
           ELSE /\ evaluation_result' = DefaultResult
                /\ Return(ErrorJson(400, "Invalid question type."))
                /\ UNCHANGED calls

\* Lines 214-232 and 314: the explanation call is over; grade the MCQ.
McqExplained ==
    /\ pc = "ea_explain"
    /\ GaUnchanged
    /\ \E o \in Outcomes("mcq_explanation") :
        /\ calls' = Settle(calls, o)
        /\ evaluation_result' =
              McqGrade(WithExplanation(evaluation_result, o),
                       request.user_answer, request.correct_answer)
        /\ Return(Json(200, evaluation_result'))
    /\ UNCHANGED <<request, raw_eval_text>>

\* Lines 247-251 and 314: the key-points call of an unanswered question is over.
SolutionSummarised ==
    /\ pc = "ea_solution"
    /\ GaUnchanged
    /\ \E o \in Outcomes("subjective_solution") :
        /\ calls' = Settle(calls, o)
        /\ evaluation_result' = WithSolution(evaluation_result, o)
        /\ Return(Json(200, evaluation_result'))
    /\ UNCHANGED <<request, raw_eval_text>>

\* Lines 271-301 and 314: the evaluation call is over; parse the reply.
SubjectiveEvaluated ==
    /\ pc = "ea_evaluate"
    /\ GaUnchanged
    /\ \E o \in Outcomes("subjective_evaluation") :
        /\ calls' = Settle(calls, o)
        /\ raw_eval_text' = o.text
        /\ evaluation_result' =
              IF o.ok THEN WithParsedReply(evaluation_result, o.text)
              ELSE WithEvaluationError(evaluation_result)
        /\ Return(Json(200, evaluation_result'))
    /\ UNCHANGED request

(* ---------------- check_plagiarism ---------------- *)
NoCorpusReport ==
    "No corpus provided for comparison. Cannot perform a detailed plagiarism check."

\* HasCorpus that only tests for None.
HasCorpusNotNone(known_corpus) == Get(known_corpus, <<>>) # None

\* Line 332: `if known_corpus:` after data.get('known_corpus', []).
HasCorpus(known_corpus) == ~Falsy(Get(known_corpus, <<>>))

\* Lines 324-346 and 353-354.
CheckPlagiarism ==
    /\ pc = "idle"
    /\ GaUnchanged
    /\ UNCHANGED <<evaluation_result, raw_eval_text>>
    /\ \E data \in PlagiarismBodies :
        /\ request' = data
        /\ IF ~data.object
           THEN /\ Return(Unhandled("AttributeError"))
                /\ UNCHANGED calls
           ELSE IF Falsy(data.user_answer)
           THEN /\ Return(ErrorJson(400,
                      "No answer provided for plagiarism check."))
                /\ UNCHANGED calls
           ELSE IF HasCorpus(data.known_corpus)
           THEN /\ calls' = Issue(calls, "plagiarism")
                /\ pc' = "cp_call"
                /\ UNCHANGED response
           ELSE /\ Return(Json(200, [plagiarism_report |-> Msg(NoCorpusReport)]))
                /\ UNCHANGED calls

\* Lines 347-352.
PlagiarismChecked ==
    /\ pc = "cp_call"
    /\ GaUnchanged
    /\ \E o \in Outcomes("plagiarism") :
        /\ calls' = Settle(calls, o)
        /\ IF o.ok
           THEN Return(Json(200, [plagiarism_report |-> o.text]))
           ELSE Return(ErrorJson(500,
                    "Failed to check plagiarism due to AI error."))
    /\ UNCHANGED <<request, evaluation_result, raw_eval_text>>

(* ---------------- recommend_tests ---------------- *)
NoGapsRecommendation ==
    "No specific skill gaps identified to recommend new tests."

\* Line 368: `if not skill_gaps:` after data.get('skill_gaps', []).
NoSkillGaps(skill_gaps) == Falsy(Get(skill_gaps, <<>>))

\* Lines 364-383.
RecommendTests ==
    /\ pc = "idle"
    /\ GaUnchanged
    /\ UNCHANGED <<evaluation_result, raw_eval_text>>
    /\ \E data \in RecommendBodies :
        /\ request' = data
        /\ IF ~data.object
           THEN /\ Return(Unhandled("AttributeError"))
                /\ UNCHANGED calls
           ELSE IF NoSkillGaps(data.skill_gaps)
           THEN /\ Return(Json(200,
                      [recommendations |-> Msg(NoGapsRecommendation)]))
                /\ UNCHANGED calls
           ELSE /\ calls' = Issue(calls, "recommendations")
                /\ pc' = "rt_call"
                /\ UNCHANGED response

\* Lines 384-389.
TestsRecommended ==
    /\ pc = "rt_call"
    /\ GaUnchanged
    /\ \E o \in Outcomes("recommendations") :
        /\ calls' = Settle(calls, o)
        /\ IF o.ok
           THEN Return(Json(200, [recommendations |-> o.text]))
           ELSE Return(ErrorJson(500,
                    "Failed to generate recommendations due to AI error."))
    /\ UNCHANGED <<request, evaluation_result, raw_eval_text>>

(* ---------------- the server ---------------- *)
\* The response is sent and the request's data is discarded.
Finish ==
    /\ pc = "done"
    /\ pc' = "idle"
    /\ request' = NoRequest
    /\ temp_file' = "none"
    /\ context_content' = <<>>
    /\ num_mcqs' = 0
    /\ num_subjective' = 0
    /\ mcqs_generated_text' = <<>>
    /\ evaluation_result' = <<>>
    /\ raw_eval_text' = <<>>
    /\ calls' = <<>>
    /\ response' = NoResponse

Next ==
    \/ GenerateAssessment
    \/ SaveUpload
    \/ ParseSyllabus
    \/ McqGenerated
    \/ SubjectiveGenerated
    \/ EvaluateAnswer
    \/ McqExplained
    \/ SolutionSummarised
    \/ SubjectiveEvaluated
    \/ CheckPlagiarism
    \/ PlagiarismChecked
    \/ RecommendTests
    \/ TestsRecommended
    \/ Finish

Spec == Init /\ [][Next]_vars

(* ======================= properties ======================= *)
Serving(endpoint) == request.endpoint = endpoint

Done(endpoint) == pc = "done" /\ Serving(endpoint)

Answered == response.exception = "none" /\ response.status = 200

\* generate_assessment got past line 118 with both types selected.
BothSelected ==
    /\ Serving("generate_assessment")
    /\ pc \in {"ga_mcq", "ga_subjective", "done"}
    /\ calls # <<>> \/ Answered
    /\ {"mcq", "subjective"} \subseteq JsonLoads(request.question_types).items

\* C1: with both "mcq" and "subjective" selected, a total_questions > 0 is
\* split so that num_mcqs + num_subjective = total_questions; from 2 on both
\* counts are at least 1; 10 gives 7 and 3; 1 gives one 1 and one 0.
C1_CountsSumToTotal ==
    BothSelected /\ IntOf(request.total_questions) > 0 =>
        LET total == IntOf(request.total_questions)
        IN  /\ num_mcqs + num_subjective = total
            /\ total >= 2 => num_mcqs >= 1 /\ num_subjective >= 1
            /\ total = 10 => num_mcqs = 7 /\ num_subjective = 3
            /\ total = 1 => {num_mcqs, num_subjective} = {0, 1}

C1_Witness ==
    /\ BothSelected
    /\ pc = "done"
    /\ IntOf(request.total_questions) = 1
    /\ num_mcqs + num_subjective = 1

\* The three graded fields of the response.
Graded(score, feedback, skill_gap) ==
    /\ Answered
    /\ response.body.score = Msg(score)
    /\ response.body.feedback = Msg(feedback)
    /\ response.body.skill_gap = Msg(skill_gap)

EvaluatedAs(question_type) ==
    /\ Done("evaluate_answer")
    /\ request.object
    /\ ~Falsy(request.question_text)
    /\ request.question_type = Msg(question_type)

\* C2: the graded fields of an mcq evaluation and of an unanswered subjective
\* evaluation depend on the request alone, as the branch table says, whatever
\* the completion service replied.
C2_GradeFollowsTable ==
    /\ EvaluatedAs("mcq") /\ Falsy(request.user_answer) =>
          Graded("Incorrect", "No answer provided.", "Incomplete Answer")
    /\ EvaluatedAs("mcq") /\ ~Falsy(request.user_answer)
          /\ request.correct_answer # None
          /\ Upper(Strip(request.user_answer))
                # Upper(Strip(request.correct_answer)) =>
          Graded("Incorrect", "Your answer is incorrect.",
                 "Conceptual Understanding")
    /\ EvaluatedAs("mcq") /\ ~Falsy(request.user_answer)
          /\ request.correct_answer # None
          /\ Upper(Strip(request.user_answer))
                = Upper(Strip(request.correct_answer)) =>
          /\ Graded("Correct", "Your answer is correct!", "N/A")
          /\ response.body.solution_highlights = NA
    /\ EvaluatedAs("subjective")
          /\ (request.user_answer = None \/ Strip(request.user_answer) = <<>>) =>
          Graded("0/10", "No answer provided for this subjective question.",
                 "No Answer Provided")

\* " c" against "C": equal only after trimming and case-folding.
C2_Witness ==
    /\ EvaluatedAs("mcq")
    /\ request.user_answer = <<" ", "c">>
    /\ request.correct_answer = <<"C">>
    /\ Graded("Correct", "Your answer is correct!", "N/A")

Failed(role) ==
    /\ pc = "done"
    /\ calls # <<>>
    /\ calls[Len(calls)] = [role |-> role, outcome |-> "failed"]

\* The request ended in a 5xx {error} response carrying the given message.
ServerError(message) ==
    /\ response.exception = "none"
    /\ response.status = 500
    /\ response.body = [error |-> Msg(message)]

HighlightsRecovered(fixed) ==
    /\ Answered
    /\ response.body.solution_highlights = fixed

GenerationServerError == ServerError(GenerationFailed)

PlagiarismServerError ==
    ServerError("Failed to check plagiarism due to AI error.")

RecommendationServerError ==
    ServerError("Failed to generate recommendations due to AI error.")

\* C4 as stated: a failed explanation or key-points call only replaces
\* solution_highlights by a fixed string; a failed generation, subjective
\* evaluation, plagiarism or recommendation call ends the request with a 5xx
\* {error} response.
C4_FailureByRole ==
    /\ Failed("mcq_explanation") => HighlightsRecovered(ExplanationFailed)
    /\ Failed("subjective_solution") => HighlightsRecovered(SolutionFailed)
    /\ Failed("mcq_generation") => GenerationServerError
    /\ Failed("subjective_generation") => GenerationServerError
    /\ Failed("plagiarism") => PlagiarismServerError
    /\ Failed("recommendations") => RecommendationServerError
    /\ Failed("subjective_evaluation") =>
          response.status >= 500 /\ "error" \in DOMAIN response.body

\* C4 amended: as C4, except that a failed subjective evaluation call ends
\* the request with a 200 EvaluationResult whose feedback is the fixed failure
\* message, whose other three fields keep their defaults and which carries
\* the error text under raw_gemini_response.
C4_FailureByRoleAmended ==
    /\ Failed("mcq_explanation") => HighlightsRecovered(ExplanationFailed)
    /\ Failed("subjective_solution") => HighlightsRecovered(SolutionFailed)
    /\ Failed("mcq_generation") => GenerationServerError
    /\ Failed("subjective_generation") => GenerationServerError
    /\ Failed("plagiarism") => PlagiarismServerError
    /\ Failed("recommendations") => RecommendationServerError
    /\ Failed("subjective_evaluation") =>
          /\ Answered
          /\ response.body.feedback = EvaluationFailed
          /\ response.body.score = NA
          /\ response.body.skill_gap = NA
          /\ response.body.solution_highlights = NA
          /\ "raw_gemini_response" \in DOMAIN response.body
          /\ response.body["raw_gemini_response"] = ErrorDetail

C4_Witness ==
    /\ Failed("subjective_evaluation")
    /\ Answered
    /\ response.body.feedback = EvaluationFailed

\* The form is malformed: neither topic nor syllabus, an empty question_types
\* list, or question_types that is not JSON.
Malformed(form) ==
    \/ Falsy(form.topic) /\ ~form.syllabus_pdf
    \/ form.question_types = [kind |-> "list", items |-> {}]
    \/ form.question_types.kind = "unparsable"

ClientError ==
    /\ response.exception = "none"
    /\ response.status \in 400..499
    /\ DOMAIN response.body = {"error"}

\* C5: generate_assessment rejects a malformed form with a 4xx {error}
\* response and without any completion call, whatever the other fields are.
C5_MalformedRejected ==
    Done("generate_assessment") /\ Malformed(request) =>
        ClientError /\ calls = <<>>

ResultKeys == {"score", "feedback", "skill_gap", "solution_highlights"}

\* C6: every non-error response of evaluate_answer carries the four keys
\* score, feedback, skill_gap and solution_highlights.
C6_FourKeys ==
    Done("evaluate_answer") /\ Answered => ResultKeys \subseteq DOMAIN response.body

C6_Witness ==
    /\ Done("evaluate_answer")
    /\ Answered
    /\ Failed("subjective_evaluation")
    /\ DOMAIN response.body = ResultKeys \cup {"raw_gemini_response"}

\* The subjective-with-answer branch parsed the reply raw_eval_text.
ReplyParsed ==
    /\ EvaluatedAs("subjective")
    /\ calls = <<[role |-> "subjective_evaluation", outcome |-> "ok"]>>

HasLabel(label) == \E i \in 1..Len(raw_eval_text) : raw_eval_text[i] = label

CouldNotParse == {FeedbackFallback, SkillGapFallback, HighlightsFallback}

\* C7 as stated: each of the four fields whose label is missing from the
\* reply is set to a fixed "could not parse" string, the response is a
\* complete EvaluationResult, and a parsed field stops before the next label.
C7_FallbackPerField ==
    ReplyParsed =>
        /\ Answered
        /\ ResultKeys \subseteq DOMAIN response.body
        /\ ~HasLabel(ScoreLabel) => response.body.score \in CouldNotParse
        /\ ~HasLabel(FeedbackLabel) => response.body.feedback = FeedbackFallback
        /\ ~HasLabel(SkillGapLabel) => response.body.skill_gap = SkillGapFallback
        /\ ~HasLabel(HighlightsLabel) =>
              response.body.solution_highlights = HighlightsFallback
        /\ \A key \in ResultKeys :
              response.body[key] \notin CouldNotParse \cup {NA} =>
                  \A k \in 1..Len(response.body[key]) :
                      response.body[key][k] \notin Labels

\* field is the stripped text after the first occurrence of label, ending
\* at the end of the reply or at the first newline directly followed by
\* next that begins at or after the first non-blank token behind the label.
CapturedAfter(field, label, next) ==
    LET t == raw_eval_text
        i == CHOOSE k \in 1..Len(t) :
                t[k] = label /\ \A k2 \in 1..(k - 1) : t[k2] # label
        first == CHOOSE k \in (i + 1)..(Len(t) + 1) :
                    /\ k = Len(t) + 1 \/ t[k] \notin {" ", "\n"}
                    /\ \A k2 \in (i + 1)..(k - 1) : t[k2] \in {" ", "\n"}
        stops == {k \in first..(Len(t) - 1) : t[k] = "\n" /\ t[k + 1] = next}
    IN  \E j \in stops \cup {Len(t) + 1} :
            /\ \A k \in stops : j <= k
            /\ field = Strip(SubSeq(t, i + 1, j - 1))

\* C7 amended: feedback, skill_gap and solution_highlights whose label is
\* missing from the reply are set to their "Could not parse ..." strings,
\* and score is "N/A" when no "Score:" label is followed by a newline, each
\* independently of the others, and the response is a complete
\* EvaluationResult.  A present label's field is the stripped text behind
\* it: the score is free of newlines; feedback runs to the first newline
\* followed by "Skill Gap:", skill_gap to the first newline followed by
\* "Correct Approach/Solution Highlights:", solution_highlights to the end.
C7_FallbackPerFieldAmended ==
    ReplyParsed =>
        /\ Answered
        /\ DOMAIN response.body = ResultKeys
        /\ (~\E i, j \in 1..Len(raw_eval_text) :
                i < j /\ raw_eval_text[i] = ScoreLabel
                      /\ raw_eval_text[j] = "\n") =>
              response.body.score = NA
        /\ \A k \in 1..Len(response.body.score) :
              response.body.score[k] # "\n"
        /\ IF HasLabel(FeedbackLabel)
           THEN CapturedAfter(response.body.feedback, FeedbackLabel,
                              SkillGapLabel)
           ELSE response.body.feedback = FeedbackFallback
        /\ IF HasLabel(SkillGapLabel)
           THEN CapturedAfter(response.body.skill_gap, SkillGapLabel,
                              HighlightsLabel)
           ELSE response.body.skill_gap = SkillGapFallback
        /\ IF HasLabel(HighlightsLabel)
           THEN \E i \in 1..Len(raw_eval_text) :
                   /\ raw_eval_text[i] = HighlightsLabel
                   /\ \A k \in 1..(i - 1) : raw_eval_text[k] # HighlightsLabel
                   /\ response.body.solution_highlights =
                         Strip(SubSeq(raw_eval_text, i + 1, Len(raw_eval_text)))
           ELSE response.body.solution_highlights = HighlightsFallback

\* The reply without "Skill Gap:": one fallback among three parsed fields.
C7_Witness ==
    /\ ReplyParsed
    /\ raw_eval_text = NoSkillGapReply
    /\ response.body.score = <<"x">>
    /\ response.body.skill_gap = SkillGapFallback
    /\ response.body.solution_highlights = <<"x">>

\* C8: check_plagiarism with an answer and without corpus, and
\* recommend_tests without skill gaps, return their fixed messages and make
\* no completion call.
C8_ShortCircuit ==
    /\ Serving("check_plagiarism") /\ request.object
          /\ ~Falsy(request.user_answer)
          /\ request.known_corpus \in {Absent, <<>>} =>
          /\ calls = <<>>
          /\ pc = "done"
          /\ response = Json(200, [plagiarism_report |-> Msg(NoCorpusReport)])
    /\ Serving("recommend_tests") /\ request.object
          /\ request.skill_gaps \in {Absent, <<>>} =>
          /\ calls = <<>>
          /\ pc = "done"
          /\ response =
                Json(200, [recommendations |-> Msg(NoGapsRecommendation)])

C8_Witness ==
    /\ Done("check_plagiarism")
    /\ request.object
    /\ request.user_answer = <<"c">>
    /\ request.known_corpus = <<>>
    /\ calls = <<>>
    /\ Answered

\* C9: evaluate_answer ends every JSON object body with an EvaluationResult
\* or an {error} response, never with an exception.
C9_NoUnhandledException ==
    Done("evaluate_answer") /\ request.object =>
        /\ response.exception = "none"
        /\ \/ DOMAIN response.body = {"error"}
           \/ ResultKeys \subseteq DOMAIN response.body

Roles == [i \in 1..Len(calls) |-> calls[i].role]

\* The calls generate_assessment makes for its counts when none fails.
GenerationRoles ==
    (IF num_mcqs > 0 THEN <<"mcq_generation">> ELSE <<>>)
        \o (IF num_subjective > 0 THEN <<"subjective_generation">> ELSE <<>>)

\* C10: a request makes at most two completion calls, one after the other.
\* generate_assessment makes one per question type with a positive count,
\* MCQ first, and none after a failure; evaluate_answer makes none for a
\* correct mcq answer and for coding and at most one otherwise;
\* check_plagiarism and recommend_tests make at most one.
C10_CallsSequential ==
    /\ Len(calls) <= 2
    /\ \A i \in 1..(Len(calls) - 1) : calls[i].outcome # "pending"
    /\ pc = "done" => \A i \in 1..Len(calls) : calls[i].outcome # "pending"
    /\ Serving("generate_assessment") =>
          /\ \A i \in 1..(Len(calls) - 1) : calls[i].outcome = "ok"
          /\ \E n \in 0..2 : Roles = SubSeq(GenerationRoles, 1, n)
          /\ pc = "done" /\ Answered => Roles = GenerationRoles
    /\ Serving("evaluate_answer") /\ request.object =>
          /\ Len(calls) <= 1
          /\ request.question_type = Msg("coding") => calls = <<>>
          /\ request.question_type = Msg("mcq")
                /\ ~Falsy(request.user_answer)
                /\ request.correct_answer # None
                /\ Upper(Strip(request.user_answer))
                      = Upper(Strip(request.correct_answer)) =>
                calls = <<>>
    /\ Serving("check_plagiarism") \/ Serving("recommend_tests") =>
          Len(calls) <= 1

C10_Witness ==
    /\ Done("generate_assessment")
    /\ Answered
    /\ calls = <<[role |-> "mcq_generation", outcome |-> "ok"],
                 [role |-> "subjective_generation", outcome |-> "ok"]>>

====
